---- MODULE Spec2Model ----
(***************************************************************************)
(* Portainer webhook deployer: change detection, service name extraction,  *)
(* secret resolution, webhook dispatch with retry, orchestration and the   *)
(* CLI exit code.  Two variants of the script exist in the repository:     *)
(*   "deploy"  scripts/portainer-webhook-deploy.js  (git diff, deploy())   *)
(*   "run"     the ALL_CHANGED_FILES variant        (env string, run())    *)
(* Both are modelled; the variable `variant' says which one is running.    *)
(*                                                                         *)
(* Node.js runs one callback at a time.  The main flow (deploy()/run() and *)
(* the CLI continuation) runs until it awaits a pending promise; only then *)
(* can a response, error, timeout or timer callback run.                   *)
(***************************************************************************)
EXTENDS Integers, Sequences, FiniteSets, TLC

(* ------------------------------ bounds --------------------------------- *)
MaxFiles == 2        \* changed paths per push
MaxTimeouts == 1     \* requests per run that end by the 10 s timeout

(* ------------------------- program constants --------------------------- *)
MaxAttempts == 3
servicesPath == "services"
secretPrefix == "PORTAINER_WEBHOOK_"

Null == "<null>"
Undefined == "<undefined>"

(* ------------------------------ strings -------------------------------- *)
CharAt(s, i) == SubSeq(s, i, i)

StartsWith(s, p) == Len(s) >= Len(p) /\ SubSeq(s, 1, Len(p)) = p

EndsWith(s, p) == Len(s) >= Len(p) /\ SubSeq(s, Len(s) - Len(p) + 1, Len(s)) = p

HasChar(s, c) == \E i \in 1..Len(s) : CharAt(s, i) = c

Range(seq) == {seq[i] : i \in 1..Len(seq)}

(* String.prototype.indexOf, counted from 1; 0 when sub does not occur. *)
IndexOf(s, sub) ==
  LET hits == {i \in 1..(Len(s) - Len(sub) + 1) :
                 SubSeq(s, i, i + Len(sub) - 1) = sub}
  IN  IF hits = {} THEN 0
      ELSE CHOOSE i \in hits : \A j \in hits : i <= j

Contains(s, sub) == IndexOf(s, sub) # 0

LowerCase == "abcdefghijklmnopqrstuvwxyz"
UpperCase == "ABCDEFGHIJKLMNOPQRSTUVWXYZ"

UpperChar(c) ==
  IF \E i \in 1..26 : CharAt(LowerCase, i) = c
    THEN CharAt(UpperCase, CHOOSE i \in 1..26 : CharAt(LowerCase, i) = c)
    ELSE c

RECURSIVE toUpperCase(_)
toUpperCase(s) ==
  IF Len(s) = 0 THEN ""
  ELSE UpperChar(CharAt(s, 1)) \o toUpperCase(SubSeq(s, 2, Len(s)))

replaceFirstHyphen(s) ==
  LET i == IndexOf(s, "-")
  IN  IF i = 0 THEN s
      ELSE SubSeq(s, 1, i - 1) \o "_" \o SubSeq(s, i + 1, Len(s))

(* String.prototype.replace(/-/g, '_') *)
RECURSIVE replaceHyphens(_)
replaceHyphens(s) ==
  IF Len(s) = 0 THEN ""
  ELSE (IF CharAt(s, 1) = "-" THEN "_" ELSE CharAt(s, 1))
         \o replaceHyphens(SubSeq(s, 2, Len(s)))

(* String.prototype.split(sep) for a one-character separator. *)
RECURSIVE split(_, _)
split(s, sep) ==
  IF ~HasChar(s, sep) THEN <<s>>
  ELSE LET i == CHOOSE k \in 1..Len(s) :
                  /\ CharAt(s, k) = sep
                  /\ \A j \in 1..(k - 1) : CharAt(s, j) # sep
       IN  <<SubSeq(s, 1, i - 1)>> \o split(SubSeq(s, i + 1, Len(s)), sep)

(* ---------------------- service name extraction ------------------------ *)
matchServiceAnyDepth(filePath) ==
  LET pre == servicesPath \o "/"
      suf == "/compose.yaml"
      mid == SubSeq(filePath, Len(pre) + 1, Len(filePath) - Len(suf))
  IN  IF /\ Len(filePath) > Len(pre) + Len(suf)
         /\ StartsWith(filePath, pre)
         /\ EndsWith(filePath, suf)
        THEN mid
        ELSE Null

(* filePath.match(/^services\/([^/]+)\/compose\.yaml$/): the capture, or   *)
(* Null when the path does not match.                                      *)
matchService(filePath) ==
  LET pre == servicesPath \o "/"
      suf == "/compose.yaml"
      mid == SubSeq(filePath, Len(pre) + 1, Len(filePath) - Len(suf))
  IN  IF /\ Len(filePath) > Len(pre) + Len(suf)
         /\ StartsWith(filePath, pre)
         /\ EndsWith(filePath, suf)
         /\ ~HasChar(mid, "/")
        THEN mid
        ELSE Null

SetAddFront(seq, v) == IF v \in Range(seq) THEN seq ELSE <<v>> \o seq

(* A JS Set keeps insertion order and ignores a value it already holds. *)
SetAdd(seq, v) == IF v \in Range(seq) THEN seq ELSE Append(seq, v)

RECURSIVE extractInto(_, _)
extractInto(serviceNames, filePaths) ==
  IF filePaths = <<>> THEN serviceNames
  ELSE LET m == matchService(Head(filePaths))
       IN  extractInto(IF m # Null THEN SetAdd(serviceNames, m) ELSE serviceNames,
                       Tail(filePaths))

extractServiceNames(filePaths) == extractInto(<<>>, filePaths)

(* Every substring of the given paths: the candidates for a service name. *)
Segments(filePaths) ==
  UNION {{SubSeq(filePaths[k], i, j) :
            i \in 1..Len(filePaths[k]), j \in 1..Len(filePaths[k])} :
         k \in 1..Len(filePaths)}

(* The names n, non-empty and without "/", for which the list holds the    *)
(* path services/n/compose.yaml.                                           *)
ComposeNames(filePaths) ==
  {n \in Segments(filePaths) :
     /\ n # ""
     /\ ~HasChar(n, "/")
     /\ \E k \in 1..Len(filePaths) :
          filePaths[k] = "services/" \o n \o "/compose.yaml"}

(* The distinct compose names of a list of paths, each at the position of  *)
(* its first occurrence: the order a JS Set hands its members back in.     *)
FirstSeen(filePaths) ==
  LET names == ComposeNames(filePaths)
      first(n) == CHOOSE k \in 1..Len(filePaths) :
                    /\ filePaths[k] = "services/" \o n \o "/compose.yaml"
                    /\ \A j \in 1..(k - 1) : filePaths[j] # filePaths[k]
  IN  CHOOSE f \in [1..Cardinality(names) -> names] :
        \A i, j \in 1..Cardinality(names) : i < j => first(f[i]) < first(f[j])

(* --------------------------- secret key -------------------------------- *)
secretNameOf(serviceName) ==
  secretPrefix \o toUpperCase(replaceHyphens(serviceName))

(* ------------------------------ inputs --------------------------------- *)
Paths ==
  { "services/a/compose.yaml",
    "services/b-c/compose.yaml",
    "services/a/sub/compose.yaml",
    "README.md" }

ChangeSets == UNION {[1..n -> Paths] : n \in 0..MaxFiles}

Separators == {" ", "\t"}

RECURSIVE join(_, _)
join(list, sep) ==
  IF list = <<>> THEN ""
  ELSE IF Len(list) = 1 THEN list[1]
  ELSE list[1] \o sep \o join(Tail(list), sep)

(* Values ALL_CHANGED_FILES can hold. *)
EnvStrings == {join(cs, sep) : cs \in ChangeSets, sep \in Separators}

(* Every service name a change set of the model can yield. *)
Services == UNION {Range(extractServiceNames(<<p>>)) : p \in Paths}

EnvKeys == {secretNameOf(s) : s \in Services}

WebhookValues == {Undefined, "", "http://p.lan/w", "https://p.lan/w"}

(* Shapes a configured webhook URL can have: bare, with a query string,    *)
(* with action parameters already in it, without a path.                   *)
UrlShapes ==
  { "https://p.lan/w",
    "https://p.lan/w?t=1",
    "https://p.lan/w?action=stop&t=1&action=x",
    "https://p.lan" }

Statuses == {200, 204, 500}

(* --------------------------- change detection -------------------------- *)
RECURSIVE filterNonEmpty(_)
filterNonEmpty(list) ==
  IF list = <<>> THEN <<>>
  ELSE (IF Head(list) # "" THEN <<Head(list)>> ELSE <<>>)
         \o filterNonEmpty(Tail(list))

(* hasPreviousCommit: `git rev-parse HEAD~1' printed a commit;             *)
(* diffThrows: `git diff --name-only HEAD~1 HEAD' exited non-zero;         *)
(* diff: its trimmed output.  NullFiles is the `return null' result, the   *)
(* other results are [isNull |-> FALSE, files |-> the array].              *)
NullFiles == [isNull |-> TRUE, files |-> <<>>]
FileList(list) == [isNull |-> FALSE, files |-> list]

getChangedFilesScanAll(hasPreviousCommit, diffThrows, diff) ==
  IF ~hasPreviousCommit \/ diffThrows
    THEN FileList(<<"services/a/compose.yaml", "services/b-c/compose.yaml">>)
  ELSE IF diff # "" THEN FileList(filterNonEmpty(split(diff, "\n")))
  ELSE FileList(<<>>)

getChangedFiles(hasPreviousCommit, diffThrows, diff) ==
  IF ~hasPreviousCommit THEN NullFiles
  ELSE IF diffThrows THEN NullFiles
  ELSE IF diff # "" THEN FileList(filterNonEmpty(split(diff, "\n")))
  ELSE FileList(<<>>)

(* --------------------------- secret resolution ------------------------- *)
FalsyUndefinedOnly(v) == v = Undefined

(* !webhookUrl for a value of process.env: unset or the empty string. *)
Falsy(v) == v = Undefined \/ v = ""

MissingSecretMessage(v, secretName, serviceName) ==
  "Secret " \o secretName \o " not found for service '" \o serviceName
    \o (IF v = "deploy" THEN "'. \n" ELSE "'.\n")
    \o "1. Enable webhook in Portainer UI for '" \o serviceName \o "' service\n"
    \o "2. Copy webhook URL from Portainer\n"
    \o "3. Add to GitHub secrets with name: " \o secretName \o "\n"
    \o "4. Update .github/workflows/portainer-deploy.yml to pass the secret as environment variable"

InvalidSchemeMessage(serviceName) ==
  "Invalid webhook URL for " \o serviceName \o ". Must be HTTPS."

(* getWebhookUrl: [threw |-> TRUE, error |-> message] or the URL.  Only    *)
(* the "deploy" variant checks the scheme.                                 *)
getWebhookUrl(v, environment, serviceName) ==
  LET secretName == secretNameOf(serviceName)
      webhookUrl == IF secretName \in DOMAIN environment
                      THEN environment[secretName] ELSE Undefined
  IN  IF Falsy(webhookUrl)
        THEN [threw |-> TRUE, url |-> Undefined,
              error |-> MissingSecretMessage(v, secretName, serviceName)]
      ELSE IF v = "deploy" /\ ~StartsWith(webhookUrl, "https://")
        THEN [threw |-> TRUE, url |-> Undefined,
              error |-> InvalidSchemeMessage(serviceName)]
      ELSE [threw |-> FALSE, url |-> webhookUrl, error |-> Undefined]

(* ------------------------- webhook error texts ------------------------- *)
IsSuccessStatus(statusCode) == statusCode = 200 \/ statusCode = 204

CanRetryEarly(attempt) == attempt < MaxAttempts - 1

CanRetry(attempt) == attempt < MaxAttempts

HttpErrorMessage(v, serviceName, statusCode) ==
  IF v = "deploy"
    THEN "Webhook failed for " \o serviceName \o ": HTTP " \o ToString(statusCode)
    ELSE "HTTP " \o ToString(statusCode)

NetworkErrorMessage(v, nativeMessage) ==
  IF v = "deploy" THEN nativeMessage ELSE "Network error"

TimeoutMessage(v, serviceName) ==
  IF v = "deploy" THEN "Timeout for " \o serviceName ELSE "Request timeout"

(* new URL(webhookUrl).hostname for URLs of the form scheme://host/path    *)
(* (no userinfo, no port).                                                 *)
hostnameOf(webhookUrl) ==
  LET start == IndexOf(webhookUrl, "://") + 3
      rest == SubSeq(webhookUrl, start, Len(webhookUrl))
      slash == IndexOf(rest, "/")
  IN  IF slash = 0 THEN rest ELSE SubSeq(rest, 1, slash - 1)

(* What follows the host in the URL. *)
afterHost(webhookUrl) ==
  LET start == IndexOf(webhookUrl, "://") + 3
      rest == SubSeq(webhookUrl, start, Len(webhookUrl))
      slash == IndexOf(rest, "/")
  IN  IF slash = 0 THEN "" ELSE SubSeq(rest, slash, Len(rest))

(* url.pathname (URLs without fragment). *)
pathnameOf(webhookUrl) ==
  LET rest == afterHost(webhookUrl)
      q == IndexOf(rest, "?")
  IN  IF rest = "" THEN "/"
      ELSE IF q = 0 THEN rest ELSE SubSeq(rest, 1, q - 1)

(* The text after the first "?" of the URL, "" when there is none. *)
queryOf(webhookUrl) ==
  LET rest == afterHost(webhookUrl)
      q == IndexOf(rest, "?")
  IN  IF q = 0 THEN "" ELSE SubSeq(rest, q + 1, Len(rest))

(* url.searchParams: the name/value pairs of the query, in order. *)
searchParams(query) ==
  LET parts == filterNonEmpty(split(query, "&"))
      pair(p) == LET eq == IndexOf(p, "=")
                 IN  IF eq = 0 THEN [name |-> p, value |-> ""]
                     ELSE [name |-> SubSeq(p, 1, eq - 1),
                           value |-> SubSeq(p, eq + 1, Len(p))]
  IN  [i \in 1..Len(parts) |-> pair(parts[i])]

paramsAppend(params, name, value) ==
  Append(params, [name |-> name, value |-> value])

(* URLSearchParams.set: the first pair of that name takes the value and    *)
(* the other pairs of that name are removed; without such a pair the new   *)
(* pair is appended.                                                       *)
paramsSet(params, name, value) ==
  LET hits == {i \in 1..Len(params) : params[i].name = name}
  IN  IF hits = {} THEN Append(params, [name |-> name, value |-> value])
      ELSE LET first == CHOOSE i \in hits : \A j \in hits : i <= j
               kept == {i \in 1..Len(params) : i \notin hits \/ i = first}
               nth(k) == CHOOSE i \in kept :
                           Cardinality({j \in kept : j < i}) = k - 1
           IN  [k \in 1..Cardinality(kept) |->
                  IF nth(k) = first THEN [name |-> name, value |-> value]
                                    ELSE params[nth(k)]]

(* URLSearchParams.toString, and url.search built from it. *)
RECURSIVE paramsToString(_)
paramsToString(params) ==
  IF params = <<>> THEN ""
  ELSE params[1].name \o "=" \o params[1].value
         \o (IF Len(params) > 1 THEN "&" ELSE "")
         \o paramsToString(Tail(params))

searchOf(params) ==
  IF params = <<>> THEN "" ELSE "?" \o paramsToString(params)

(* options.path of the POST: url.pathname + url.search.  Only the "deploy" *)
(* variant sets action=redeploy first.                                     *)
requestPath(v, webhookUrl) ==
  LET params == searchParams(queryOf(webhookUrl))
  IN  pathnameOf(webhookUrl) \o
        searchOf(IF v = "deploy" THEN paramsSet(params, "action", "redeploy")
                                 ELSE params)

(* error.message of the 'error' event Node emits on a request that could   *)
(* not reach the host: the text names the host.                            *)
ConnectionErrors(webhookUrl) ==
  {"getaddrinfo ENOTFOUND " \o hostnameOf(webhookUrl)}
SocketHangUp == "socket hang up"

(* Response bodies an endpoint may send. *)
Bodies == {"", "stack 7 not found"}

(* console.log(`   Response: ${data || '(empty)'}`) *)
ResponseLogLine(data) ==
  "   Response: " \o (IF data # "" THEN data ELSE "(empty)")

(* The console lines a non-200/204 response adds that interpolate its      *)
(* body: only the "deploy" variant prints the body.                        *)
BodyLines(v, data) == IF v = "deploy" THEN {ResponseLogLine(data)} ELSE {}

(* ------------------------------- state --------------------------------- *)
VARIABLES
  variant,       \* "deploy" or "run": which script is running
  env,           \* process.env restricted to the webhook secrets
  pc,            \* position of the main flow
  changeSet,     \* "unread", "undetermined" or "definite"
  serviceNames,  \* result of extractServiceNames
  idx,           \* index of the service the for-loop is at
  results,       \* the accumulating DeployResult list
  summary,       \* <<the object deploy()/run() returned>>, <<>> before
  exitCode,      \* <<the argument of process.exit>>, <<>> while running
  twState,       \* per service: state of the promise of triggerWebhook
  twError,       \* per service: message of the error it rejected with
  inflight,      \* [service][attempt]: requests awaiting an outcome
  destroyed,     \* [service][attempt]: requests destroyed by the timeout
                 \*   handler whose 'error' event is still to be emitted
  timers,        \* [service][attempt]: pending setTimeout callbacks that
                 \*   will start that attempt
  attempts,      \* per service: POST requests issued so far
  delays,        \* per service: retry delays scheduled so far
  nOk,           \* per service: requests answered 200/204
  nFail,         \* per service: requests that failed
  nonHttp,       \* per service: some request failed by error or timeout
  secretReads,   \* secret names read from the environment
  timeouts,      \* requests that timed out so far
  internalError, \* an exception was thrown outside the per-service try
  git,           \* what the two git commands of getChangedFiles answered
  logged,        \* console lines that interpolate a response body
  lastStatus,    \* per service: <<status>> of the latest request outcome,
                 \*   <<>> when it was no response (or nothing happened yet)
  pure,          \* a function under test with its argument and result
  posts,         \* per service: the request path of every POST issued
  firstSeen      \* the names of the change set in first-seen order

mainVars == <<variant, env, pc, changeSet, serviceNames, idx, results,
              summary, exitCode, git, pure, firstSeen>>
hookVars == <<twState, twError, inflight, destroyed, timers, attempts,
              delays, nOk, nFail, nonHttp, logged, lastStatus, posts>>
vars == <<variant, env, pc, changeSet, serviceNames, idx, results, summary,
          exitCode, twState, twError, inflight, destroyed, timers, attempts,
          delays, nOk, nFail, nonHttp, secretReads, timeouts, internalError,
          git, logged, lastStatus, pure, posts, firstSeen>>

Attempts == 1..MaxAttempts

Zero2 == [s \in Services |-> [a \in Attempts |-> 0]]

(* git has not been asked (always so in the "run" variant). *)
NoGit == [asked |-> FALSE, hasPreviousCommit |-> FALSE,
          diffThrows |-> FALSE, diffEmpty |-> FALSE]

(* No function is under test: the script itself is running. *)
NoPure == [fn |-> "none", arg |-> <<>>, done |-> FALSE, out |-> <<>>]

(* The state of a process that has just been started. *)
Fresh ==
  /\ pc = "start"
  /\ changeSet = "unread"
  /\ serviceNames = <<>>
  /\ idx = 0
  /\ results = <<>>
  /\ summary = <<>>
  /\ exitCode = <<>>
  /\ twState = [s \in Services |-> "none"]
  /\ twError = [s \in Services |-> Undefined]
  /\ inflight = Zero2
  /\ destroyed = Zero2
  /\ timers = Zero2
  /\ attempts = [s \in Services |-> 0]
  /\ delays = [s \in Services |-> 0]
  /\ nOk = [s \in Services |-> 0]
  /\ nFail = [s \in Services |-> 0]
  /\ nonHttp = [s \in Services |-> FALSE]
  /\ secretReads = {}
  /\ timeouts = 0
  /\ internalError = FALSE
  /\ git = NoGit
  /\ logged = {}
  /\ lastStatus = [s \in Services |-> <<>>]
  /\ posts = [s \in Services |-> <<>>]
  /\ firstSeen = <<>>

Init ==
  /\ variant \in {"deploy", "run"}
  /\ env \in [EnvKeys -> WebhookValues]
  /\ Fresh
  /\ pure = NoPure

(* ------------------------------ helpers -------------------------------- *)
Inc(f, s, a) == [f EXCEPT ![s][a] = @ + 1]
Dec(f, s, a) == [f EXCEPT ![s][a] = @ - 1]
Bump(f, s) == [f EXCEPT ![s] = @ + 1]

Successful(rs) == SelectSeq(rs, LAMBDA r : r.success)
FailedAll(rs) == rs

Failed(rs) == SelectSeq(rs, LAMBDA r : ~r.success)
ServicesOf(rs) == [i \in 1..Len(rs) |-> rs[i].service]

(* The main flow is suspended in `await this.triggerWebhook(...)'. *)
Awaiting ==
  /\ pc = "await"
  /\ twState[serviceNames[idx]] = "pending"

(* resolve()/reject() of the promise the orchestration awaits.  Every      *)
(* nested call forwards with .then(resolve).catch(reject), and a promise   *)
(* keeps its first settlement.                                             *)
SettledState(s, st) ==
  IF twState[s] = "pending" THEN [twState EXCEPT ![s] = st] ELSE twState
SettledError(s, e) ==
  IF twState[s] = "pending" THEN [twError EXCEPT ![s] = e] ELSE twError

(* ---------------------------- summaries -------------------------------- *)
(* A summary is a record with exactly the keys the returned object has.    *)
(* `skipped' holds values of several JS types (true, false, []); it is     *)
(* kept as the JSON text of the value.                                     *)
Truthy(json) == json \notin {"false", "null", "undefined", "0", "\"\""}

SkippedSummaryFailed ==
  [success |-> FALSE, deployed |-> <<>>, skipped |-> "true",
   reason |-> "Cannot determine changed files (non-linear git history)"]

SkippedSummary ==
  [success |-> TRUE, deployed |-> <<>>, skipped |-> "true",
   reason |-> "Cannot determine changed files (non-linear git history)"]

NothingToDeploySkipped(v) ==
  IF v = "deploy"
    THEN [success |-> TRUE, deployed |-> <<>>, skipped |-> "true"]
    ELSE [deployed |-> <<>>, skipped |-> "true", success |-> TRUE]

NothingToDeploySummary(v) ==
  IF v = "deploy"
    THEN [success |-> TRUE, deployed |-> <<>>, skipped |-> "false"]
    ELSE [deployed |-> <<>>, skipped |-> "[]", success |-> TRUE]

AnySuccess(rs) == Len(Successful(rs)) > 0

AllSuccess(rs) == Len(Failed(rs)) = 0

ResultsSummary(v, rs) ==
  IF v = "deploy"
    THEN [success |-> AllSuccess(rs),
          deployed |-> ServicesOf(Successful(rs)),
          failed |-> ServicesOf(Failed(rs)),
          results |-> rs, skipped |-> "false"]
    ELSE [deployed |-> ServicesOf(Successful(rs)),
          failed |-> ServicesOf(Failed(rs)),
          success |-> AllSuccess(rs)]

UnhandledErrorSummary(message) ==
  [success |-> FALSE, deployed |-> <<>>, failed |-> <<>>,
   results |-> <<>>, skipped |-> "false", error |-> message]

cliExitCodeDeployedFirst(v, result) ==
  IF v = "deploy"
    THEN IF Truthy(result.skipped) THEN 0
         ELSE IF Len(result.deployed) > 0 THEN 0
         ELSE IF ~result.success THEN 1
         ELSE 0
    ELSE IF Len(result.deployed) > 0 THEN 0
         ELSE IF ~result.success THEN 1
         ELSE 0

(* The CLI continuation: the argument of process.exit. *)
cliExitCode(v, result) ==
  IF v = "deploy"
    THEN IF Truthy(result.skipped) THEN 0
         ELSE IF ~result.success THEN 1
         ELSE IF Len(result.deployed) > 0 THEN 0
         ELSE 0
    ELSE IF ~result.success THEN 1
         ELSE IF Len(result.deployed) > 0 THEN 0
         ELSE 0

(* ------------------------------ main flow ------------------------------ *)
(* The for-of loop moves on to the next service whether the iteration      *)
(* ended in the try block (ok) or in the catch block.                      *)
LoopAdvanceAbort(i, names, ok) == IF ok THEN i + 1 ELSE Len(names) + 1

LoopAdvance(i, names, ok) == i + 1

(* After extractServiceNames: return at once, or enter the for-loop. *)
Extracted(names) ==
  /\ serviceNames' = names
  /\ IF Len(names) = 0
       THEN /\ summary' = <<NothingToDeploySummary(variant)>>
            /\ pc' = "returned"
            /\ idx' = idx
       ELSE /\ summary' = summary
            /\ pc' = "loop"
            /\ idx' = 1

StartDeploy ==
  /\ pc = "start"
  /\ variant = "deploy"
  /\ \E hasPreviousCommit \in BOOLEAN, diffThrows \in BOOLEAN, cs \in ChangeSets :
       LET changedFiles ==
             getChangedFiles(hasPreviousCommit, diffThrows, join(cs, "\n"))
       IN  /\ git' = [asked |-> TRUE,
                      hasPreviousCommit |-> hasPreviousCommit,
                      diffThrows |-> hasPreviousCommit /\ diffThrows,
                      diffEmpty |-> cs = <<>>]
           /\ IF changedFiles.isNull
                THEN /\ changeSet' = "undetermined"
                     /\ summary' = <<SkippedSummary>>
                     /\ pc' = "returned"
                     /\ UNCHANGED <<serviceNames, idx, firstSeen>>
                ELSE /\ changeSet' = "definite"
                     /\ firstSeen' = FirstSeen(changedFiles.files)
                     /\ Extracted(extractServiceNames(changedFiles.files))
  /\ UNCHANGED <<variant, env, results, exitCode, secretReads, timeouts,
                 internalError, pure>>
  /\ UNCHANGED hookVars

(* The head of run(): from ALL_CHANGED_FILES to the service names. *)
runServiceNames(allChangedFiles) ==
  IF allChangedFiles = "" THEN <<>>
  ELSE extractServiceNames(split(allChangedFiles, " "))

StartRun ==
  /\ pc = "start"
  /\ variant = "run"
  /\ \E allChangedFiles \in EnvStrings :
       /\ changeSet' = "definite"
       /\ IF allChangedFiles = ""
            THEN /\ summary' = <<NothingToDeploySummary(variant)>>
                 /\ pc' = "returned"
                 /\ UNCHANGED <<serviceNames, idx, firstSeen>>
            ELSE /\ firstSeen' = FirstSeen(split(allChangedFiles, " "))
                 /\ Extracted(extractServiceNames(split(allChangedFiles, " ")))
  /\ UNCHANGED <<variant, env, results, exitCode, secretReads, timeouts,
                 internalError, git, pure>>
  /\ UNCHANGED hookVars

(* One iteration of the for-loop up to its await: getWebhookUrl, then      *)
(* either the catch block or the first request of triggerWebhook.          *)
ProcessService ==
  /\ pc = "loop"
  /\ idx <= Len(serviceNames)
  /\ LET serviceName == serviceNames[idx]
         r == getWebhookUrl(variant, env, serviceName)
     IN  /\ secretReads' = secretReads \cup {secretNameOf(serviceName)}
         /\ IF r.threw
              THEN /\ results' = Append(results,
                        [service |-> serviceName, success |-> FALSE,
                         error |-> r.error])
                   /\ idx' = LoopAdvance(idx, serviceNames, FALSE)
                   /\ pc' = pc
                   /\ UNCHANGED <<twState, inflight, attempts, posts>>
              ELSE /\ twState' = [twState EXCEPT ![serviceName] = "pending"]
                   /\ inflight' = Inc(inflight, serviceName, 1)
                   /\ posts' = [posts EXCEPT ![serviceName] =
                                  Append(@, requestPath(variant, r.url))]
                   /\ attempts' = Bump(attempts, serviceName)
                   /\ pc' = "await"
                   /\ UNCHANGED <<results, idx>>
  /\ UNCHANGED <<variant, env, changeSet, serviceNames, summary, exitCode,
                 git, pure, firstSeen>>
  /\ UNCHANGED <<twError, destroyed, timers, delays, nOk, nFail, nonHttp,
                 timeouts, internalError, logged, lastStatus>>

(* The await returns or throws: the rest of the iteration. *)
Resume ==
  /\ pc = "await"
  /\ twState[serviceNames[idx]] \in {"resolved", "rejected"}
  /\ LET serviceName == serviceNames[idx]
     IN  results' = Append(results,
           IF twState[serviceName] = "resolved"
             THEN [service |-> serviceName, success |-> TRUE,
                   error |-> Undefined]
             ELSE [service |-> serviceName, success |-> FALSE,
                   error |-> twError[serviceName]])
  /\ idx' = LoopAdvance(idx, serviceNames,
                         twState[serviceNames[idx]] = "resolved")
  /\ pc' = "loop"
  /\ UNCHANGED <<variant, env, changeSet, serviceNames, summary, exitCode,
                 secretReads, timeouts, internalError, git, pure, firstSeen>>
  /\ UNCHANGED hookVars

(* The loop is over: build and return the summary. *)
Aggregate ==
  /\ pc = "loop"
  /\ idx > Len(serviceNames)
  /\ summary' = <<ResultsSummary(variant, results)>>
  /\ pc' = "returned"
  /\ UNCHANGED <<variant, env, changeSet, serviceNames, idx, results,
                 exitCode, secretReads, timeouts, internalError, git, pure,
                 firstSeen>>
  /\ UNCHANGED hookVars

(* An unexpected exception outside the per-service try block (before the   *)
(* change detection, or while the summary is printed).  deploy() catches   *)
(* it and returns a summary; run() has no try block and rejects.           *)
InternalErrorMessage == "write EPIPE"

InternalError ==
  /\ \/ pc = "start"
     \/ pc = "loop" /\ idx > Len(serviceNames)
  /\ IF variant = "deploy"
       THEN /\ summary' = <<UnhandledErrorSummary(InternalErrorMessage)>>
            /\ pc' = "returned"
       ELSE /\ summary' = summary
            /\ pc' = "fatal"
  /\ internalError' = TRUE
  /\ UNCHANGED <<variant, env, changeSet, serviceNames, idx, results,
                 exitCode, secretReads, timeouts, git, pure, firstSeen>>
  /\ UNCHANGED hookVars

(* .then(result => process.exit(...)) / .catch(() => process.exit(1)) *)
Exit ==
  /\ pc \in {"returned", "fatal"}
  /\ exitCode' = IF pc = "fatal" THEN <<1>>
                                   ELSE <<cliExitCode(variant, summary[1])>>
  /\ pc' = "exited"
  /\ UNCHANGED <<variant, env, changeSet, serviceNames, idx, results,
                 summary, secretReads, timeouts, internalError, git, pure,
                 firstSeen>>
  /\ UNCHANGED hookVars

(* --------------------- triggerWebhook: callbacks ----------------------- *)
(* The common tail of the three failure branches: schedule the next        *)
(* attempt after the delay, or reject when attempt = maxAttempts.          *)
RetryOrReject(s, attempt, message) ==
  IF CanRetry(attempt)
    THEN /\ timers' = Inc(timers, s, attempt + 1)
         /\ delays' = Bump(delays, s)
         /\ UNCHANGED <<twState, twError>>
    ELSE /\ twState' = SettledState(s, "rejected")
         /\ twError' = SettledError(s, message)
         /\ UNCHANGED <<timers, delays>>

(* res.on('end'): the response of a request has been read. *)
ResponseEnd(s, attempt) ==
  /\ Awaiting
  /\ inflight[s][attempt] > 0
  /\ inflight' = Dec(inflight, s, attempt)
  /\ \E statusCode \in Statuses, data \in Bodies :
       /\ lastStatus' = [lastStatus EXCEPT ![s] = <<statusCode>>]
       /\ IF IsSuccessStatus(statusCode)
            THEN /\ twState' = SettledState(s, "resolved")
                 /\ nOk' = Bump(nOk, s)
                 /\ UNCHANGED <<twError, timers, delays, nFail, logged>>
            ELSE /\ RetryOrReject(s, attempt,
                                  HttpErrorMessage(variant, s, statusCode))
                 /\ logged' = logged \cup BodyLines(variant, data)
                 /\ nFail' = Bump(nFail, s)
                 /\ nOk' = nOk
  /\ UNCHANGED <<destroyed, attempts, nonHttp, secretReads, timeouts,
                 internalError, posts>>
  /\ UNCHANGED mainVars

(* req.on('error') for a request that failed on the network. *)
NetworkError(s, attempt) ==
  /\ Awaiting
  /\ inflight[s][attempt] > 0
  /\ inflight' = Dec(inflight, s, attempt)
  /\ \E nativeMessage \in ConnectionErrors(env[secretNameOf(s)]) :
       RetryOrReject(s, attempt, NetworkErrorMessage(variant, nativeMessage))
  /\ nFail' = Bump(nFail, s)
  /\ nonHttp' = [nonHttp EXCEPT ![s] = TRUE]
  /\ lastStatus' = [lastStatus EXCEPT ![s] = <<>>]
  /\ UNCHANGED <<destroyed, attempts, nOk, secretReads, timeouts,
                 internalError, logged, posts>>
  /\ UNCHANGED mainVars

(* req.on('timeout'): req.destroy(), then retry or reject.  Destroying a   *)
(* request that has no response yet makes Node emit 'error' ("socket hang  *)
(* up") on it afterwards; when the response had started, it does not.      *)
Timeout(s, attempt) ==
  /\ Awaiting
  /\ inflight[s][attempt] > 0
  /\ timeouts < MaxTimeouts
  /\ inflight' = Dec(inflight, s, attempt)
  /\ \E errorFollows \in BOOLEAN :
       destroyed' = IF errorFollows THEN Inc(destroyed, s, attempt)
                                    ELSE destroyed
  /\ RetryOrReject(s, attempt, TimeoutMessage(variant, s))
  /\ nFail' = Bump(nFail, s)
  /\ nonHttp' = [nonHttp EXCEPT ![s] = TRUE]
  /\ timeouts' = timeouts + 1
  /\ lastStatus' = [lastStatus EXCEPT ![s] = <<>>]
  /\ UNCHANGED <<attempts, nOk, secretReads, internalError, logged, posts>>
  /\ UNCHANGED mainVars

(* req.on('error') for a request the timeout handler destroyed. *)
ErrorAfterTimeout(s, attempt) ==
  /\ Awaiting
  /\ destroyed[s][attempt] > 0
  /\ destroyed' = Dec(destroyed, s, attempt)
  /\ RetryOrReject(s, attempt, NetworkErrorMessage(variant, SocketHangUp))
  /\ lastStatus' = [lastStatus EXCEPT ![s] = <<>>]
  /\ UNCHANGED <<inflight, attempts, nOk, nFail, nonHttp, secretReads,
                 timeouts, internalError, logged, posts>>
  /\ UNCHANGED mainVars

(* The setTimeout callback: the recursive triggerWebhook call issues the   *)
(* request of the next attempt.                                            *)
RetryTimer(s, attempt) ==
  /\ Awaiting
  /\ timers[s][attempt] > 0
  /\ timers' = Dec(timers, s, attempt)
  /\ inflight' = Inc(inflight, s, attempt)
  /\ attempts' = Bump(attempts, s)
  /\ posts' = [posts EXCEPT ![s] =
                 Append(@, requestPath(variant, env[secretNameOf(s)]))]
  /\ UNCHANGED <<twState, twError, destroyed, delays, nOk, nFail, nonHttp,
                 secretReads, timeouts, internalError, logged, lastStatus>>
  /\ UNCHANGED mainVars

(* --------------------------- specification ----------------------------- *)
Next ==
  \/ StartDeploy
  \/ StartRun
  \/ ProcessService
  \/ Resume
  \/ Aggregate
  \/ InternalError
  \/ Exit
  \/ \E s \in Services, attempt \in Attempts :
       \/ ResponseEnd(s, attempt)
       \/ NetworkError(s, attempt)
       \/ Timeout(s, attempt)
       \/ ErrorAfterTimeout(s, attempt)
       \/ RetryTimer(s, attempt)

Spec == Init /\ [][Next]_vars

(* ------------------- the two pure helpers on their own ----------------- *)
(* extractServiceNames and the secret name are functions of their argument *)
(* alone.  SpecPure applies each to arguments drawn in the initial state,  *)
(* as the unit tests of test-portainer-webhook.js do.                      *)
PurePaths ==
  Paths \cup
  { "services/a/compose.yml",
    "services/a/other-file.txt",
    "not-services/a/compose.yaml",
    "services//compose.yaml" }

PureLists == UNION {[1..n -> PurePaths] : n \in 0..MaxFiles}

PureNames ==
  { "hello", "home-assistant", "adguard", "a", "b-c", "a-b-c", "-", "x-",
    "web_1", "Pi-hole" }

(* Values of ALL_CHANGED_FILES with each kind of whitespace between the   *)
(* paths.                                                                  *)
PureEnvStrings ==
  {join(cs, sep) : cs \in ChangeSets, sep \in {" ", "  ", "\t", "\n"}}

PureInputs ==
  {[fn |-> "extractServiceNames", arg |-> l, done |-> FALSE, out |-> <<>>] :
     l \in PureLists}
  \cup
  {[fn |-> "runServiceNames", arg |-> <<e>>, done |-> FALSE, out |-> <<>>] :
     e \in PureEnvStrings}
  \cup
  {[fn |-> "secretNameOf", arg |-> <<n>>, done |-> FALSE, out |-> <<>>] :
     n \in PureNames}

scriptVars == <<variant, env, pc, changeSet, serviceNames, idx, results,
                summary, exitCode, twState, twError, inflight, destroyed,
                timers, attempts, delays, nOk, nFail, nonHttp, secretReads,
                timeouts, internalError, git, logged, lastStatus, posts,
                firstSeen>>

InitPure ==
  /\ variant = "deploy"
  /\ env = [k \in EnvKeys |-> Undefined]
  /\ Fresh
  /\ pure \in PureInputs

ApplyExtractServiceNames ==
  /\ pure.fn = "extractServiceNames"
  /\ ~pure.done
  /\ pure' = [pure EXCEPT !.done = TRUE,
                          !.out = extractServiceNames(pure.arg)]
  /\ UNCHANGED scriptVars

ApplySecretNameOf ==
  /\ pure.fn = "secretNameOf"
  /\ ~pure.done
  /\ pure' = [pure EXCEPT !.done = TRUE,
                          !.out = <<secretNameOf(pure.arg[1])>>]
  /\ UNCHANGED scriptVars

ApplyRunServiceNames ==
  /\ pure.fn = "runServiceNames"
  /\ ~pure.done
  /\ pure' = [pure EXCEPT !.done = TRUE,
                          !.out = runServiceNames(pure.arg[1])]
  /\ UNCHANGED scriptVars

NextPure ==
  \/ ApplyExtractServiceNames
  \/ ApplyRunServiceNames
  \/ ApplySecretNameOf

SpecPure == InitPure /\ [][NextPure]_vars

(* -------------------- the script over the URL shapes ------------------- *)
(* The same script, started with one configured webhook of each shape (the *)
(* other service has no secret).                                           *)
InitPost ==
  /\ variant \in {"deploy", "run"}
  /\ \E webhookUrl \in UrlShapes :
       env = [k \in EnvKeys |->
                IF k = secretNameOf("a") THEN webhookUrl ELSE Undefined]
  /\ Fresh
  /\ pure = NoPure

SpecPost == InitPost /\ [][Next]_vars

TypeOK ==
  /\ variant \in {"deploy", "run"}
  /\ pc \in {"start", "loop", "await", "returned", "fatal", "exited"}
  /\ changeSet \in {"unread", "undetermined", "definite"}
  /\ idx \in 0..(Len(serviceNames) + 1)
  /\ Range(serviceNames) \subseteq Services
  /\ exitCode \in {<<>>, <<0>>, <<1>>}
  /\ Len(summary) <= 1
  /\ \A s \in Services :
       /\ twState[s] \in {"none", "pending", "resolved", "rejected"}
       /\ \A a \in Attempts :
            inflight[s][a] >= 0 /\ destroyed[s][a] >= 0 /\ timers[s][a] >= 0

(* ============================== claims ================================= *)
(* A request awaiting its outcome, or a retry waiting for its delay. *)
Outstanding(s) ==
  \E a \in Attempts : inflight[s][a] + timers[s][a] > 0

InFlight(s) == \E a \in Attempts : inflight[s][a] > 0

Recorded(s) == s \in Range(ServicesOf(results))

(* The summary deploy()/run() returned after the for-loop. *)
PerServiceSummary ==
  /\ summary # <<>>
  /\ ~internalError
  /\ Len(serviceNames) > 0

(* The services a summary lists as failed (none when it has no list). *)
FailedSet(r) == IF "failed" \in DOMAIN r THEN Range(r.failed) ELSE {}

(* C1: whatever the outcomes of its requests, at most 3 POST requests are  *)
(* issued for a service.                                                   *)
C1_AtMostThreeAttempts ==
  \A s \in Services : attempts[s] <= MaxAttempts

(* C2: once a request of a service has been answered 200 or 204,           *)
(* triggerWebhook reports success for it and no further request is issued  *)
(* for it.                                                                 *)
C2_SuccessShortCircuits ==
  [][\A s \in Services :
       nOk'[s] > 0 =>
         /\ twState'[s] = "resolved"
         /\ (nOk[s] > 0 => attempts'[s] = attempts[s])]_vars

(* C3: when the first two requests of a service fail and the next answer   *)
(* is 200/204, triggerWebhook reports success after exactly 3 attempts and *)
(* exactly 2 delays.                                                       *)
C3_FailTwiceThenSucceed ==
  [][\A s \in Services :
       (nOk[s] = 0 /\ nOk'[s] = 1 /\ nFail[s] = 2) =>
         /\ twState'[s] = "resolved"
         /\ attempts'[s] = 3
         /\ delays'[s] = 2]_vars

(* C4: while every request of a service is answered with a non-200/204     *)
(* status, no more than maxAttempts requests are issued for it, and        *)
(* triggerWebhook has reported failure exactly when maxAttempts requests   *)
(* have failed; it never reports success.                                  *)
C4_AlwaysFailing ==
  \A s \in Services :
    (nOk[s] = 0 /\ ~nonHttp[s]) =>
      /\ attempts[s] <= MaxAttempts
      /\ nFail[s] <= attempts[s]
      /\ twState[s] # "resolved"
      /\ (twState[s] = "rejected") <=> (nFail[s] = MaxAttempts)

C4_Witness ==
  \E s \in Services :
    /\ nOk[s] = 0 /\ ~nonHttp[s]
    /\ twState[s] = "rejected"
    /\ attempts[s] = MaxAttempts
    /\ nFail[s] = MaxAttempts

(* C5: the results list holds exactly one DeployResult for each service    *)
(* the loop has gone through, in order, whatever the earlier outcomes; the *)
(* summary of the per-service branch is built from one result for every    *)
(* extracted service name.                                                 *)
C5_NoAbort ==
  /\ Len(results) <= Len(serviceNames)
  /\ ServicesOf(results) = SubSeq(serviceNames, 1, Len(results))
  /\ pc \in {"loop", "await"} => Len(results) = idx - 1
  /\ PerServiceSummary => ServicesOf(results) = serviceNames
  /\ \A i, j \in 1..Len(serviceNames) :
       serviceNames[i] = serviceNames[j] => i = j

C5_Witness ==
  /\ PerServiceSummary
  /\ Len(results) = 2
  /\ ~results[1].success
  /\ twState[results[2].service] # "none"

(* C6 as stated: in every per-service summary success holds iff the failed *)
(* list is empty, and skipped is false.                                    *)
C6_Original ==
  PerServiceSummary =>
    /\ summary[1].success <=> (summary[1].failed = <<>>)
    /\ "skipped" \in DOMAIN summary[1]
    /\ summary[1].skipped = "false"

(* C6 amended: in every per-service summary success holds iff the failed   *)
(* list is empty; skipped is false in the summary of deploy(), and the     *)
(* summary of run() has no skipped field.                                  *)
C6_SuccessIffNoFailure ==
  PerServiceSummary =>
    /\ summary[1].success <=> (summary[1].failed = <<>>)
    /\ summary[1].success <=> (\A i \in 1..Len(results) : results[i].success)
    /\ variant = "deploy" =>
         "skipped" \in DOMAIN summary[1] /\ summary[1].skipped = "false"
    /\ variant = "run" => "skipped" \notin DOMAIN summary[1]

C6_Witness ==
  /\ PerServiceSummary
  /\ variant = "run"
  /\ ~summary[1].success
  /\ \E i \in 1..Len(results) : results[i].success

(* C7: when the change set is undetermined the run returns at once a       *)
(* summary with skipped = true, success = true, nothing deployed and       *)
(* nothing failed, and no secret is read and no request issued.            *)
C7_UndeterminedSkips ==
  changeSet = "undetermined" =>
    /\ pc \in {"returned", "exited"}
    /\ summary # <<>>
    /\ summary[1].skipped = "true"
    /\ summary[1].success
    /\ summary[1].deployed = <<>>
    /\ FailedSet(summary[1]) = {}
    /\ results = <<>>
    /\ secretReads = {}
    /\ \A s \in Services : attempts[s] = 0 /\ ~Outstanding(s)

C7_Witness ==
  /\ changeSet = "undetermined"
  /\ pc = "exited"
  /\ exitCode = <<0>>

(* C8: when the change set is known and yields no service name, the run    *)
(* returns at once a summary with success = true, nothing deployed and     *)
(* nothing failed, whose skipped is not true, and no secret is read and no *)
(* request issued.                                                         *)
C8_NothingToDeploy ==
  (changeSet = "definite" /\ Len(serviceNames) = 0) =>
    /\ pc \in {"returned", "exited"}
    /\ summary # <<>>
    /\ summary[1].success
    /\ summary[1].deployed = <<>>
    /\ FailedSet(summary[1]) = {}
    /\ summary[1].skipped # "true"
    /\ results = <<>>
    /\ secretReads = {}
    /\ \A s \in Services : attempts[s] = 0 /\ ~Outstanding(s)

C8_Witness ==
  /\ changeSet = "definite"
  /\ Len(serviceNames) = 0
  /\ pc = "exited"
  /\ exitCode = <<0>>

(* C9: services are handled one at a time: whenever a request or a pending *)
(* retry of one service is outstanding no request of another service is in *)
(* flight, and no request is issued for a service whose DeployResult has   *)
(* been recorded.                                                          *)
C9_Sequential ==
  [][/\ \A s, t \in Services :
          (s # t /\ Outstanding(s)') => ~InFlight(t)'
     /\ \A s \in Services :
          Recorded(s) => attempts'[s] = attempts[s]]_vars

(* C10: the process exits with 1 when some service failed or an unexpected *)
(* error was thrown, and with 0 otherwise (full success, nothing to do, or *)
(* a skipped run).                                                         *)
C10_ExitCode ==
  pc = "exited" =>
    exitCode = IF \/ internalError
                  \/ \E i \in 1..Len(results) : ~results[i].success
                 THEN <<1>> ELSE <<0>>

C10_Witness ==
  /\ pc = "exited"
  /\ exitCode = <<1>>
  /\ ~internalError
  /\ \E i, j \in 1..Len(results) : results[i].success /\ ~results[j].success

(* ------------------------------- C11 ----------------------------------- *)
(* C11: extractServiceNames returns exactly the distinct <name> segments   *)
(* of the paths services/<name>/compose.yaml of its argument: no name      *)
(* twice, other paths ignored, the empty list gives the empty list, and    *)
(* any list with the same members gives the same set of names.             *)
C11_ExtractExactlyComposeNames ==
  (pure.fn = "extractServiceNames" /\ pure.done) =>
    /\ Range(pure.out) = ComposeNames(pure.arg)
    /\ Cardinality(Range(pure.out)) = Len(pure.out)
    /\ (pure.arg = <<>> => pure.out = <<>>)
    /\ \A other \in PureLists :
         Range(other) = Range(pure.arg) =>
           Range(extractServiceNames(other)) = Range(pure.out)

(* A compose path given twice yields its name once. *)
C11_Witness ==
  /\ pure.fn = "extractServiceNames"
  /\ pure.done
  /\ pure.arg = <<"services/a/compose.yaml", "services/a/compose.yaml">>
  /\ pure.out = <<"a">>

(* ------------------------------- C12 ----------------------------------- *)
(* C12: the secret key of a service name is PORTAINER_WEBHOOK_ followed by *)
(* the name with every "-" turned into "_" and every letter in upper case, *)
(* character by character; home-assistant gives                            *)
(* PORTAINER_WEBHOOK_HOME_ASSISTANT.                                       *)
C12_SecretKey ==
  (pure.fn = "secretNameOf" /\ pure.done) =>
    LET name == pure.arg[1]
        key == pure.out[1]
        p == Len("PORTAINER_WEBHOOK_")
    IN  /\ Len(pure.out) = 1
        /\ Len(key) = p + Len(name)
        /\ SubSeq(key, 1, p) = "PORTAINER_WEBHOOK_"
        /\ \A i \in 1..Len(name) :
             LET c == SubSeq(name, i, i)
                 d == SubSeq(key, p + i, p + i)
             IN  IF c = "-" THEN d = "_"
                 ELSE IF \E j \in 1..26 : c = SubSeq(LowerCase, j, j)
                   THEN \E j \in 1..26 : /\ c = SubSeq(LowerCase, j, j)
                                          /\ d = SubSeq(UpperCase, j, j)
                 ELSE d = c
        /\ (name = "home-assistant" =>
              key = "PORTAINER_WEBHOOK_HOME_ASSISTANT")
        /\ (name = "hello" => key = "PORTAINER_WEBHOOK_HELLO")

(* A name with two hyphens has been converted. *)
C12_Witness ==
  /\ pure.fn = "secretNameOf"
  /\ pure.done
  /\ pure.arg = <<"a-b-c">>
  /\ pure.out = <<"PORTAINER_WEBHOOK_A_B_C">>

(* ------------------------------- C13 ----------------------------------- *)
(* The DeployResults recorded for service s. *)
ResultsOf(s) == {results[i] : i \in {j \in 1..Len(results) : results[j].service = s}}

(* C13: when the variable of a service's secret key is unset or empty, no  *)
(* webhook request is ever issued for the service, and once the loop has   *)
(* handled it the service is recorded as failed with an error that names   *)
(* the expected variable (and it is in the failed list of the summary).    *)
C13_MissingSecret ==
  \A s \in Services :
    LET key == "PORTAINER_WEBHOOK_" \o (IF s = "b-c" THEN "B_C" ELSE "A")
    IN  (env[key] = Undefined \/ env[key] = "") =>
          /\ attempts[s] = 0
          /\ twState[s] = "none"
          /\ ~Outstanding(s)
          /\ key \in secretReads =>
               /\ ResultsOf(s) # {}
               /\ \A r \in ResultsOf(s) :
                    /\ ~r.success
                    /\ StartsWith(r.error, "Secret " \o key \o " not found")
                    /\ Contains(r.error, "name: " \o key)
               /\ (PerServiceSummary => s \in FailedSet(summary[1]))

(* Both cases at once: one service whose variable is unset and one whose   *)
(* variable is empty have been recorded as failed and summarised.          *)
C13_Witness ==
  /\ PerServiceSummary
  /\ env["PORTAINER_WEBHOOK_A"] = Undefined
  /\ env["PORTAINER_WEBHOOK_B_C"] = ""
  /\ FailedSet(summary[1]) = {"a", "b-c"}
  /\ attempts["a"] = 0
  /\ attempts["b-c"] = 0

(* ------------------------------- C14 ----------------------------------- *)
(* C14: a non-empty webhook value that does not start with https:// makes  *)
(* the resolution fail with the invalid-scheme error and never receives a  *)
(* request: triggerWebhook is only ever called with https:// URLs.         *)
C14_HttpsOnly ==
  \A s \in Services :
    LET value == env[secretNameOf(s)]
    IN  /\ (twState[s] # "none" \/ attempts[s] > 0) =>
             StartsWith(value, "https://")
        /\ (/\ ~Falsy(value)
            /\ ~StartsWith(value, "https://")
            /\ secretNameOf(s) \in secretReads) =>
             \A r \in ResultsOf(s) :
               ~r.success /\ r.error = InvalidSchemeMessage(s)

(* ------------------------------- C15 ----------------------------------- *)
(* C15: no text of a response body reaches a surfaced error or a console   *)
(* line, so runs that differ only in the bodies surface and print the      *)
(* same text.                                                              *)
C15_BodyNeverSurfaces ==
  \A data \in Bodies \ {""} :
    /\ \A line \in logged : ~Contains(line, data)
    /\ \A s \in Services : ~Contains(twError[s], data)
    /\ \A i \in 1..Len(results) : ~Contains(results[i].error, data)

(* ------------------------------- C16 ----------------------------------- *)
(* C16: at the moment triggerWebhook rejects, its error carries the HTTP   *)
(* status of the attempt that just ended when that attempt got a response, *)
(* and otherwise a text that contains neither the webhook URL nor its      *)
(* host.                                                                   *)
C16_TerminalFailure ==
  [][\A s \in Services :
       (twState[s] = "pending" /\ twState'[s] = "rejected") =>
         IF lastStatus'[s] # <<>>
           THEN Contains(twError'[s], "HTTP " \o ToString(lastStatus'[s][1]))
           ELSE /\ ~Contains(twError'[s], env[secretNameOf(s)])
                /\ ~Contains(twError'[s], hostnameOf(env[secretNameOf(s)]))]_vars

C18_SummaryOnInternalError ==
  (internalError /\ pc \in {"returned", "fatal", "exited"}) =>
    /\ summary # <<>>
    /\ ~summary[1].success
    /\ (pc = "exited" => exitCode = <<1>>)

(* ------------------------------- C19 ----------------------------------- *)
(* C19: a delay is scheduled exactly when an attempt that is not the last  *)
(* one fails, one delay per failed attempt.                                *)
C19_OneDelayPerFailedAttempt ==
  [][\A s \in Services :
       delays'[s] = delays[s] +
         (IF /\ nFail'[s] > nFail[s]
             /\ \E a \in 1..(MaxAttempts - 1) : inflight'[s][a] < inflight[s][a]
            THEN 1 ELSE 0)]_vars

(* ------------------------------- C20 ----------------------------------- *)
(* C20: a failed attempt below the third (HTTP status other than 200/204,  *)
(* network error or timeout) schedules a retry, a retry is scheduled by    *)
(* nothing but a failed attempt, and once a 200/204 has been received for  *)
(* a service no further attempt is started for it.                         *)
C20_RetryTriggers ==
  [][\A s \in Services :
       /\ \A a \in 1..(MaxAttempts - 1) :
            (nFail'[s] > nFail[s] /\ inflight'[s][a] < inflight[s][a]) =>
              timers'[s][a + 1] = timers[s][a + 1] + 1
       /\ (\E a \in Attempts : timers'[s][a] > timers[s][a]) =>
            nOk'[s] = nOk[s]
       /\ nOk[s] > 0 => attempts'[s] = attempts[s]]_vars

(* ------------------------------- C21 ----------------------------------- *)
(* The action=... parameters in the query of a request path, in order. *)
ActionParams(path) ==
  LET q == IndexOf(path, "?")
      pieces == IF q = 0 THEN <<>>
                ELSE split(SubSeq(path, q + 1, Len(path)), "&")
  IN  SelectSeq(pieces, LAMBDA p : StartsWith(p, "action="))

RECURSIVE Tokens(_)
Tokens(s) ==
  LET white(i) == SubSeq(s, i, i) \in {" ", "\t", "\n"}
      stops == {i \in 1..Len(s) : white(i)}
  IN  IF s = "" THEN <<>>
      ELSE IF stops = {} THEN <<s>>
      ELSE LET i == CHOOSE k \in stops : \A j \in stops : k <= j
           IN  (IF i = 1 THEN <<>> ELSE <<SubSeq(s, 1, i - 1)>>)
                 \o Tokens(SubSeq(s, i + 1, Len(s)))

(* C22: the services taken from ALL_CHANGED_FILES are the compose names of *)
(* its whitespace-separated paths, whichever whitespace separates them,    *)
(* and the empty string gives none.                                        *)
C22_WhitespaceDelimited ==
  (pure.fn = "runServiceNames" /\ pure.done) =>
    /\ Range(pure.out) = ComposeNames(Tokens(pure.arg[1]))
    /\ (pure.arg[1] = "" => pure.out = <<>>)

(* ------------------------------- C23 ----------------------------------- *)
(* C23: the services are processed in the order in which their names are   *)
(* first seen in the change set: the extracted list is in that order, the  *)
(* results are recorded in it, no request is issued for a service before   *)
(* every earlier one is recorded, and no request is issued for a service   *)
(* whose secret has not been read.                                         *)
C23_FirstSeenOrder ==
  /\ (changeSet = "definite" /\ pc # "start") => serviceNames = firstSeen
  /\ Len(results) <= Len(serviceNames)
  /\ ServicesOf(results) = SubSeq(serviceNames, 1, Len(results))
  /\ \A j \in 1..Len(serviceNames) :
       attempts[serviceNames[j]] > 0 =>
         /\ secretNameOf(serviceNames[j]) \in secretReads
         /\ \A i \in 1..(j - 1) : Recorded(serviceNames[i])
  /\ \A s \in Services : attempts[s] > 0 => s \in Range(serviceNames)

(* A change set naming b-c before a: both were deployed, b-c first. *)
C23_Witness ==
  /\ serviceNames = <<"b-c", "a">>
  /\ ServicesOf(results) = <<"b-c", "a">>
  /\ attempts["b-c"] > 0
  /\ attempts["a"] > 0

(* ------------------------------- C24 ----------------------------------- *)
(* C24: an attempt schedules at most one successor: a service never has    *)
(* more retries scheduled than attempts that failed, and never two         *)
(* requests or pending retries with the same attempt number.               *)
C24_OneSuccessorPerAttempt ==
  \A s \in Services :
    /\ delays[s] <= nFail[s]
    /\ \A a \in Attempts : inflight[s][a] + timers[s][a] <= 1

(* ------------------------------- C25 ----------------------------------- *)
(* C25: a recorded service is a success (and so listed in deployed)        *)
(* exactly when one of the requests issued for it was answered 200 or 204. *)
C25_DeployedIffSuccessResponse ==
  /\ \A i \in 1..Len(results) :
       results[i].success <=> nOk[results[i].service] > 0
  /\ PerServiceSummary =>
       \A s \in Range(serviceNames) :
         s \in Range(summary[1].deployed) <=> nOk[s] > 0

(* ------------------------------- C26 ----------------------------------- *)
(* C26: in a summary of the per-service branch the deployed and the failed *)
(* list have no name in common, hold no name twice, and together hold      *)
(* exactly the names extracted from the change set; a failed name makes    *)
(* success false.                                                          *)
C26_DeployedFailedPartition ==
  PerServiceSummary =>
    LET deployed == summary[1].deployed
        failed == summary[1].failed
    IN  /\ Range(deployed) \cap Range(failed) = {}
        /\ Range(deployed) \cup Range(failed) = Range(firstSeen)
        /\ Len(deployed) + Len(failed) = Len(firstSeen)
        /\ Cardinality(Range(firstSeen)) = Len(firstSeen)
        /\ (failed # <<>> => ~summary[1].success)

(* One service deployed, the other failed for its missing secret. *)
C26_Witness ==
  /\ PerServiceSummary
  /\ env["PORTAINER_WEBHOOK_B_C"] = Undefined
  /\ summary[1].deployed = <<"a">>
  /\ summary[1].failed = <<"b-c">>
  /\ ~summary[1].success

(* ------------------------------- C27 ----------------------------------- *)
(* Something the suspended main flow is waiting for: a request of the     *)
(* awaited service without outcome yet, the 'error' event of a destroyed   *)
(* request, or a retry delay that has not elapsed.                         *)
PendingFor(s) ==
  \E a \in Attempts : inflight[s][a] + destroyed[s][a] + timers[s][a] > 0

====
